---------------------------- MODULE Spec2Model ----------------------------
(***************************************************************************)
(* Model of src/src/lib.rs (pdf-extract-text): the artifact filter         *)
(* clean_text, the page segmenter split_text_into_pages and the chunked    *)
(* extraction extract_text_chunks.                                         *)
(*                                                                         *)
(* A text is a sequence of characters, each character a one-element        *)
(* string ("U+00B2" stands for the single character SUPERSCRIPT TWO).      *)
(***************************************************************************)
EXTENDS Naturals, Sequences, FiniteSets, TLC

VARIABLES
    \* clean_text applied by a caller, once and then again to its own output
    ftext, fpc, fout1, fout2,
    \* split_text_into_pages: the input, the lines() iterator and the locals
    stext, slines, sidx, current_page, buffer, pages, spc,
    \* extract_text_chunks: the file at `path`, the arguments, the position in
    \* the function, the cleaned text, the chunks the splitter has yielded (as
    \* spans of the cleaned text) and the Result
    cfile, chunk_size, chunk_overlap, cpc, cleaned, spans, result, error

fvars == <<ftext, fpc, fout1, fout2>>
svars == <<stext, slines, sidx, current_page, buffer, pages, spc>>
cvars == <<cfile, chunk_size, chunk_overlap, cpc, cleaned, spans, result, error>>
vars == <<fvars, svars, cvars>>

-----------------------------------------------------------------------------
(* Bounds of the model *)

\* longest input text given to clean_text, in characters
MaxFilterLen == 5

\* most lines of an input text given to split_text_into_pages
MaxLines == 4

\* longest text of a file given to extract_text_chunks, in characters
MaxChunkText == 4

\* largest chunk_size and chunk_overlap given to extract_text_chunks
MaxChunkSize == 3

-----------------------------------------------------------------------------
(* Characters and the std string functions the code calls *)

LF == "\n"
CR == "\r"

\* char::is_whitespace (White_Space), over the characters of the model
Whitespace == {" ", CR, LF}

\* the ASCII decimal digits, the only characters str::parse::<u32> accepts
AsciiDigits == {"0", "1", "2", "3", "4", "5", "6", "7", "8", "9"}

\* char::is_numeric: general categories Nd, Nl and No, so also U+00B2
IsNumeric(c) == c \in AsciiDigits \cup {"U+00B2"}

IsWhitespace(c) == c \in Whitespace

\* all sequences over S of length at most n
SeqsUpTo(S, n) == UNION {[1..k -> S] : k \in 0..n}

\* str::trim: drop leading and trailing whitespace
Trim(s) ==
    LET keep == {i \in 1..Len(s) : ~IsWhitespace(s[i])}
    IN  IF keep = {} THEN <<>>
        ELSE LET lo == CHOOSE i \in keep : \A j \in keep : i <= j
                 hi == CHOOSE i \in keep : \A j \in keep : j <= i
             IN  SubSeq(s, lo, hi)

\* str::split_inclusive('\n'): pieces that keep their terminating newline
RECURSIVE SplitInclusive(_)
SplitInclusive(s) ==
    IF s = <<>> THEN <<>>
    ELSE LET nl == {i \in 1..Len(s) : s[i] = LF}
         IN  IF nl = {} THEN <<s>>
             ELSE LET n == CHOOSE i \in nl : \A j \in nl : i <= j
                  IN  <<SubSeq(s, 1, n)>> \o SplitInclusive(SubSeq(s, n + 1, Len(s)))

\* the closure of str::lines: strip one "\n", and then one "\r" before it (a
\* last line that no "\n" ends keeps its "\r")
StripLineEnding(piece) ==
    IF piece = <<>> \/ piece[Len(piece)] # LF THEN piece
    ELSE LET a == SubSeq(piece, 1, Len(piece) - 1)
         IN  IF a = <<>> \/ a[Len(a)] # CR THEN a
             ELSE SubSeq(a, 1, Len(a) - 1)

\* str::lines
Lines(s) ==
    LET ps == SplitInclusive(s)
    IN  [i \in 1..Len(ps) |-> StripLineEnding(ps[i])]

\* [&str]::join(sep)
RECURSIVE Join(_, _)
Join(ls, sep) ==
    IF ls = <<>> THEN <<>>
    ELSE IF Len(ls) = 1 THEN ls[1]
    ELSE ls[1] \o sep \o Join(Tail(ls), sep)

-----------------------------------------------------------------------------
(* clean_text *)

\* line.trim().chars().all(|c| c.is_numeric()): true of an empty trimmed line
AllNumeric(line) == \A i \in 1..Len(Trim(line)) : IsNumeric(Trim(line)[i])

\* the filter predicate: the lines clean_text keeps
KeepLine(line) == ~AllNumeric(line)

clean_text(text) == Join(SelectSeq(Lines(text), KeepLine), <<LF>>)

FilterChars == {"1", "a", " ", CR, LF, "U+00B2"}

FilterInit ==
    /\ ftext \in SeqsUpTo(FilterChars, MaxFilterLen)
    /\ fpc = "input"
    /\ fout1 = <<>>
    /\ fout2 = <<>>
    /\ stext = <<>> /\ slines = <<>> /\ sidx = 0 /\ current_page = 0
    /\ buffer = <<>> /\ pages = <<>> /\ spc = "idle"
    /\ cfile = [kind |-> "none", text |-> <<>>] /\ chunk_size = 0 /\ chunk_overlap = 0
    /\ cpc = "idle" /\ cleaned = <<>> /\ spans = <<>> /\ result = <<>> /\ error = <<>>

\* the caller filters the text
FilterOnce ==
    /\ fpc = "input"
    /\ fout1' = clean_text(ftext)
    /\ fpc' = "once"
    /\ UNCHANGED <<ftext, fout2, svars, cvars>>

\* the caller filters the filtered text again
FilterTwice ==
    /\ fpc = "once"
    /\ fout2' = clean_text(fout1)
    /\ fpc' = "twice"
    /\ UNCHANGED <<ftext, fout1, svars, cvars>>

-----------------------------------------------------------------------------
(* split_text_into_pages *)

DigitVal(c) ==
    CASE c = "0" -> 0 [] c = "1" -> 1 [] c = "2" -> 2 [] c = "3" -> 3
      [] c = "4" -> 4 [] c = "5" -> 5 [] c = "6" -> 6 [] c = "7" -> 7
      [] c = "8" -> 8 [] c = "9" -> 9

\* the value of a string of ASCII digits
RECURSIVE DecimalValue(_)
DecimalValue(ds) ==
    IF ds = <<>> THEN 0
    ELSE DecimalValue(SubSeq(ds, 1, Len(ds) - 1)) * 10 + DigitVal(ds[Len(ds)])

\* the digits of u32::MAX, 4294967295
U32MaxDigits == <<"4", "2", "9", "4", "9", "6", "7", "2", "9", "5">>

RECURSIVE StripLeadingZeros(_)
StripLeadingZeros(ds) ==
    IF ds # <<>> /\ ds[1] = "0" THEN StripLeadingZeros(Tail(ds)) ELSE ds

\* the checked arithmetic of parse::<u32>: the digits denote a value <= u32::MAX
\* (decided on the digits: the value itself may exceed the checker's integers)
FitsU32(ds) ==
    LET d == StripLeadingZeros(ds)
    IN  \/ Len(d) < Len(U32MaxDigits)
        \/ /\ Len(d) = Len(U32MaxDigits)
           /\ \/ d = U32MaxDigits
              \/ \E i \in 1..Len(d) :
                    /\ DigitVal(d[i]) < DigitVal(U32MaxDigits[i])
                    /\ \A j \in 1..(i - 1) : d[j] = U32MaxDigits[j]

\* str::parse::<u32>: an optional leading "+", then one or more ASCII digits
\* whose value fits 32 bits; anything else is an Err
ParseU32(s) ==
    LET ds == IF s # <<>> /\ s[1] = "+" THEN Tail(s) ELSE s
    IN  IF /\ ds # <<>>
           /\ \A i \in 1..Len(ds) : ds[i] \in AsciiDigits
           /\ FitsU32(ds)
        THEN [ok |-> TRUE, val |-> DecimalValue(ds)]
        ELSE [ok |-> FALSE, val |-> 0]

\* if let Ok(parsed_page) = line.trim().parse::<u32>()
IsMarker(line) == ParseU32(Trim(line)).ok

MarkerValue(line) == ParseU32(Trim(line)).val

\* Page { page, text }
Page(n, t) == [page |-> n, text |-> t]

\* on a marker line: the page pushed when a page is open
MarkerPages(cp, buf, pgs) ==
    IF cp > 0 THEN Append(pgs, Page(cp, Trim(buf))) ELSE pgs

\* mutant of MarkerBuffer: the buffer is cleared on every marker line
MarkerBuffer_ClearAlways(cp, buf) == <<>>

\* on a marker line: buffer.clear(), inside the same `if current_page > 0`
MarkerBuffer(cp, buf) == IF cp > 0 THEN <<>> ELSE buf

\* after the loop: the last open page, pushed when its trimmed text is not empty
FinalPages(cp, buf, pgs) ==
    IF cp > 0 /\ Trim(buf) # <<>> THEN Append(pgs, Page(cp, Trim(buf))) ELSE pgs

\* the lines the input texts of the segmenter are made of
SegLineSet ==
    { <<>>, <<" ">>, <<"a">>, <<" ", "b", " ">>, <<"1">>, <<" ", "2">>,
      <<"0">>, <<"+", "1">>, <<"1", "a">> }

SegmentInit ==
    /\ \E ls \in SeqsUpTo(SegLineSet, MaxLines) : stext = Join(ls, <<LF>>)
    /\ slines = <<>>
    /\ sidx = 0
    /\ current_page = 0
    /\ buffer = <<>>
    /\ pages = <<>>
    /\ spc = "call"
    /\ ftext = <<>> /\ fpc = "idle" /\ fout1 = <<>> /\ fout2 = <<>>
    /\ cfile = [kind |-> "none", text |-> <<>>] /\ chunk_size = 0 /\ chunk_overlap = 0
    /\ cpc = "idle" /\ cleaned = <<>> /\ spans = <<>> /\ result = <<>> /\ error = <<>>

\* entry: pages, current_page and buffer initialised, text.lines() created
SegCall ==
    /\ spc = "call"
    /\ slines' = Lines(stext)
    /\ sidx' = 1
    /\ current_page' = 0
    /\ buffer' = <<>>
    /\ pages' = <<>>
    /\ spc' = "loop"
    /\ UNCHANGED <<stext, fvars, cvars>>

\* one iteration of the for loop, on line slines[sidx]
SegLine ==
    /\ spc = "loop"
    /\ sidx <= Len(slines)
    /\ LET line == slines[sidx]
       IN  IF IsMarker(line)
           THEN /\ pages' = MarkerPages(current_page, buffer, pages)
                /\ buffer' = MarkerBuffer(current_page, buffer)
                /\ current_page' = MarkerValue(line)
           ELSE /\ buffer' = buffer \o line
                /\ UNCHANGED <<pages, current_page>>
    /\ sidx' = sidx + 1
    /\ UNCHANGED <<stext, slines, spc, fvars, cvars>>

\* the lines are exhausted: the final push and the return
SegReturn ==
    /\ spc = "loop"
    /\ sidx > Len(slines)
    /\ pages' = FinalPages(current_page, buffer, pages)
    /\ spc' = "done"
    /\ UNCHANGED <<stext, slines, sidx, current_page, buffer, fvars, cvars>>

-----------------------------------------------------------------------------
(* extract_text_chunks                                                      *)
(*                                                                         *)
(* ChunkConfig and TextSplitter belong to the text-splitter crate.  Its    *)
(* splitter picks chunk boundaries by semantic level (sentence, word,      *)
(* grapheme, character); the model does not fix that choice.  It lets the  *)
(* iterator yield any chunk that keeps what the crate guarantees with the  *)
(* default configuration used here (character sizer, trim on): a chunk is  *)
(* a non-empty substring of the text without leading or trailing           *)
(* whitespace, of at most chunk_size characters; chunks come in document   *)
(* order, each ending after the one before; two neighbours share at most   *)
(* `overlap` characters; nothing but whitespace is left out.               *)

\* the characters of the files given to extract_text_chunks
ChunkChars == {"a", " ", LF, "1"}

\* what read_file_async and extract_text_from_bytes find at `path`: no readable
\* file, bytes on which the parser panics, bytes that are no PDF, or a PDF with
\* its text
ChunkFiles ==
    { [kind |-> k, text |-> <<>>] : k \in {"unreadable", "panic", "corrupt"} }
    \cup { [kind |-> "pdf", text |-> t] : t \in SeqsUpTo(ChunkChars, MaxChunkText) }

\* mutant of WithOverlapOk: an overlap equal to the capacity is accepted
WithOverlapOk_AllowEqual(size, overlap) == overlap <= size

\* ChunkConfig::new(chunk_size).with_overlap(chunk_overlap) is Ok: the crate
\* rejects an overlap that is not smaller than the capacity
WithOverlapOk(size, overlap) == overlap < size

\* format!("Invalid chunk config (chunk_size={}, overlap={}): {}", ...), as its
\* literal pieces and formatted arguments in order
ConfigError(size, overlap) ==
    << "Invalid chunk config (chunk_size=", ToString(size), ", overlap=",
       ToString(overlap), "): ", "overlap >= capacity" >>

ReadError == << "Failed to read file at '", "path", "': ", "io error" >>

PanicError == << "PDF extraction thread panicked for '", "path", "': ", "join error" >>

ExtractError == << "Failed to extract PDF from '", "path", "': ", "pdf error" >>

\* a span [lo, hi] of the text holds no leading or trailing whitespace (the
\* splitter trims its chunks) and at most `size` characters
SpanOk(text, size, sp) ==
    /\ 1 <= sp.lo /\ sp.lo <= sp.hi /\ sp.hi <= Len(text)
    /\ sp.hi - sp.lo + 1 <= size
    /\ ~IsWhitespace(text[sp.lo])
    /\ ~IsWhitespace(text[sp.hi])

AllWhitespace(text, lo, hi) == \A i \in lo..hi : IsWhitespace(text[i])

\* TextSplitter::chunks yields `sp` after the spans `prev`: chunks come in
\* document order, each starts and ends after the one before, shares at most
\* `overlap` characters with it, and only whitespace lies between two chunks
NextSpanOk(text, size, overlap, prev, sp) ==
    /\ SpanOk(text, size, sp)
    /\ IF prev = <<>>
       THEN AllWhitespace(text, 1, sp.lo - 1)
       ELSE LET last == prev[Len(prev)]
            IN  /\ sp.lo > last.lo
                /\ sp.hi > last.hi
                /\ last.hi - sp.lo + 1 <= overlap
                /\ AllWhitespace(text, last.hi + 1, sp.lo - 1)

\* the splitter's iterator is exhausted: only whitespace is left
Exhausted(text, prev) ==
    AllWhitespace(text, IF prev = <<>> THEN 1 ELSE prev[Len(prev)].hi + 1, Len(text))

\* TextChunk { id, text }
TextChunk(i, t) == [id |-> i, text |-> t]

\* mutant of EnumerateIndex: the ids are counted from 1
EnumerateIndex_FromOne(i) == i

\* .enumerate(): the index paired with the i-th item, counted from 0
EnumerateIndex(i) == i - 1

\* .enumerate().map(|(i, text)| TextChunk { id: i as u32, text }).collect()
Collect(text, sps) ==
    [i \in 1..Len(sps) |->
        TextChunk(EnumerateIndex(i), SubSeq(text, sps[i].lo, sps[i].hi))]

ChunkInit ==
    /\ cfile \in ChunkFiles
    /\ chunk_size \in 0..MaxChunkSize
    /\ chunk_overlap \in 0..MaxChunkSize
    /\ cpc = "read"
    /\ cleaned = <<>>
    /\ spans = <<>>
    /\ result = <<>>
    /\ error = <<>>
    /\ ftext = <<>> /\ fpc = "idle" /\ fout1 = <<>> /\ fout2 = <<>>
    /\ stext = <<>> /\ slines = <<>> /\ sidx = 0 /\ current_page = 0
    /\ buffer = <<>> /\ pages = <<>> /\ spc = "idle"

\* read_file_async(&path).await?
ChunkRead ==
    /\ cpc = "read"
    /\ IF cfile.kind = "unreadable"
       THEN cpc' = "failed" /\ error' = ReadError
       ELSE cpc' = "extract" /\ UNCHANGED error
    /\ UNCHANGED <<cfile, chunk_size, chunk_overlap, cleaned, spans, result, fvars, svars>>

\* extract_text_from_bytes(&path, bytes).await? and clean_text(&text)
ChunkExtract ==
    /\ cpc = "extract"
    /\ CASE cfile.kind = "panic" ->
                cpc' = "failed" /\ error' = PanicError /\ UNCHANGED cleaned
         [] cfile.kind = "corrupt" ->
                cpc' = "failed" /\ error' = ExtractError /\ UNCHANGED cleaned
         [] OTHER ->
                cpc' = "config" /\ cleaned' = clean_text(cfile.text) /\ UNCHANGED error
    /\ UNCHANGED <<cfile, chunk_size, chunk_overlap, spans, result, fvars, svars>>

\* ChunkConfig::new(..).with_overlap(..).map_err(..)?
ChunkConfigure ==
    /\ cpc = "config"
    /\ IF WithOverlapOk(chunk_size, chunk_overlap)
       THEN cpc' = "split" /\ UNCHANGED error
       ELSE cpc' = "failed" /\ error' = ConfigError(chunk_size, chunk_overlap)
    /\ UNCHANGED <<cfile, chunk_size, chunk_overlap, cleaned, spans, result, fvars, svars>>

\* splitter.chunks(&cleaned): the iterator yields its next chunk
ChunkYield ==
    /\ cpc = "split"
    /\ \E lo \in 1..Len(cleaned), hi \in 1..Len(cleaned) :
          /\ NextSpanOk(cleaned, chunk_size, chunk_overlap, spans, [lo |-> lo, hi |-> hi])
          /\ spans' = Append(spans, [lo |-> lo, hi |-> hi])
    /\ UNCHANGED <<cfile, chunk_size, chunk_overlap, cpc, cleaned, result, error, fvars, svars>>

\* the iterator ends: the chunks are enumerated and collected, Ok(result)
ChunkCollect ==
    /\ cpc = "split"
    /\ Exhausted(cleaned, spans)
    /\ result' = Collect(cleaned, spans)
    /\ cpc' = "done"
    /\ UNCHANGED <<cfile, chunk_size, chunk_overlap, cleaned, spans, error, fvars, svars>>

ChunkNext == ChunkRead \/ ChunkExtract \/ ChunkConfigure \/ ChunkYield \/ ChunkCollect

ChunkSpec == ChunkInit /\ [][ChunkNext]_vars

-----------------------------------------------------------------------------
(* The specification's reading of a line, used to state its claims *)

\* a non-empty string of decimal digits
IsDigitString(s) == s # <<>> /\ \A i \in 1..Len(s) : s[i] \in AsciiDigits

\* the specification's page marker: the whole trimmed line is decimal digits
SpecIsMarker(line) == IsDigitString(Trim(line))

SpecMarkerValue(line) == DecimalValue(Trim(line))

\* the specification's filter keeps every line that is not a digit string
SpecKeepLine(line) == ~IsDigitString(Trim(line))

\* the concatenation of the lines L[a..b] that M does not classify as markers
RECURSIVE Concat(_)
Concat(ss) == IF ss = <<>> THEN <<>> ELSE ss[1] \o Concat(Tail(ss))

ConcatBody(L, a, b, M(_)) ==
    Concat([i \in 1..(b - a + 1) |-> IF M(L[a + i - 1]) THEN <<>> ELSE L[a + i - 1]])

\* the indices of the marker lines of L, in order
MarkerIndices(L, M(_)) ==
    LET idx == [i \in 1..Len(L) |-> i]
        IsM(i) == M(L[i])
    IN  SelectSeq(idx, IsM)

\* the first line is a marker, every marker has a value above 0 and is followed,
\* before the next marker, by a body line with non-whitespace content
WellFormed(L, M(_), V(_)) ==
    /\ L # <<>>
    /\ M(L[1])
    /\ \A i \in 1..Len(L) :
          M(L[i]) =>
             /\ V(L[i]) > 0
             /\ \E j \in (i + 1)..Len(L) :
                   /\ ~M(L[j])
                   /\ Trim(L[j]) # <<>>
                   /\ \A k \in (i + 1)..j : ~M(L[k])

\* one Page per marker: its value, and the trimmed concatenation of the lines
\* up to the next marker
PagePerMarker(L, M(_), V(_)) ==
    LET ms == MarkerIndices(L, M)
        upto(k) == IF k < Len(ms) THEN ms[k + 1] - 1 ELSE Len(L)
    IN  [k \in 1..Len(ms) |->
            Page(V(L[ms[k]]), Trim(ConcatBody(L, ms[k] + 1, upto(k), M)))]

\* the fixed windows of a text: one every `stride` characters from `start`,
\* each `size` characters long or what is left, until the start reaches the end
RECURSIVE WindowsFrom(_, _, _, _)
WindowsFrom(text, size, stride, start) ==
    IF start >= Len(text) THEN <<>>
    ELSE LET hi == IF start + size < Len(text) THEN start + size ELSE Len(text)
         IN  <<SubSeq(text, start + 1, hi)>>
                \o WindowsFrom(text, size, stride, start + stride)

-----------------------------------------------------------------------------
(* Claims *)

\* C1: every Page that split_text_into_pages emits has non-empty trimmed text (a
\* marker followed by no body text before the next marker produces no Page).
C1_EmittedPagesHaveText ==
    \A i \in 1..Len(pages) : Trim(pages[i].text) # <<>>

\* C2: clean_text discards a line if and only if its trimmed form is non-empty
\* and consists only of decimal digits (empty and whitespace-only lines are
\* kept); the kept lines are joined by single newlines, none trailing.
C2_FilterDiscardsExactlyDigitLines ==
    fpc \in {"once", "twice"} =>
        fout1 = Join(SelectSeq(Lines(ftext), SpecKeepLine), <<LF>>)

\* C3: split_text_into_pages treats a line as a page marker if and only if the
\* whole trimmed line is a non-empty string of decimal digits; every other line
\* (one with a sign, say) is body text, appended to the buffer.
C3_MarkerIffDigitString ==
    [][ (spc = "loop" /\ sidx <= Len(slines)) =>
            ( SpecIsMarker(slines[sidx])
              <=> ~( /\ buffer' = buffer \o slines[sidx]
                     /\ pages' = pages
                     /\ current_page' = current_page ) ) ]_vars

\* C4: with the file read and decoded, extract_text_chunks called with
\* overlap >= chunk_size or chunk_size = 0 returns the configuration error, whose
\* message holds the chunk_size and the overlap given, and no chunk at all.
C4_BadConfigIsRejected ==
    ( /\ cfile.kind = "pdf"
      /\ cpc \notin {"read", "extract", "config"}
      /\ (chunk_overlap >= chunk_size \/ chunk_size = 0) )
    =>  /\ cpc = "failed"
        /\ error = ConfigError(chunk_size, chunk_overlap)
        /\ error[2] = ToString(chunk_size)
        /\ error[4] = ToString(chunk_overlap)
        /\ spans = <<>>
        /\ result = <<>>

C4_Witness ==
    /\ cfile.kind = "pdf" /\ cfile.text # <<>>
    /\ chunk_size = 3 /\ chunk_overlap = 3
    /\ cpc = "failed"

\* C5: clean_text is idempotent: filtering a filtered text changes nothing.
C5_FilterIdempotent ==
    fpc = "twice" => fout2 = fout1

\* C6: for an input whose first line is a marker, whose markers are all above 0
\* and each followed by a body line with non-whitespace content, the result is
\* one Page per marker, in order, with the marker's value and the trimmed
\* concatenation of the raw body lines up to the next marker.
C6_OnePagePerMarker ==
    (spc = "done" /\ WellFormed(slines, SpecIsMarker, SpecMarkerValue))
    => pages = PagePerMarker(slines, SpecIsMarker, SpecMarkerValue)

\* C7: for a valid configuration the chunks are exactly the fixed windows of the
\* cleaned text: window k starts at k * (chunk_size - overlap) and is chunk_size
\* long, or what is left, until the window start reaches the end of the text.
C7_ChunksAreFixedWindows ==
    cpc = "done" =>
        [i \in 1..Len(result) |-> result[i].text]
            = WindowsFrom(cleaned, chunk_size, chunk_size - chunk_overlap, 0)

\* C8: every Page emitted has a page number above 0 (also with a marker "0"), and
\* an input with no marker line yields no page.
C8_PageNumbersPositive ==
    /\ \A i \in 1..Len(pages) : pages[i].page > 0
    /\ ( /\ spc = "done"
         /\ \A i \in 1..Len(slines) : ~SpecIsMarker(slines[i]) )
       => pages = <<>>

\* C9: the chunks are returned in document order and the i-th chunk, counted
\* from 0, has id i.
C9_IdsCountFromZero ==
    cpc = "done" =>
        /\ Len(result) = Len(spans)
        /\ \A i \in 1..Len(result) :
              /\ result[i].id = i - 1
              /\ result[i].text = SubSeq(cleaned, spans[i].lo, spans[i].hi)
              /\ i > 1 => spans[i - 1].lo < spans[i].lo

C9_Witness ==
    cpc = "done" /\ Len(result) >= 2 /\ chunk_overlap > 0

\* C10: the buffer is cleared only in the step that emits a Page on a marker
\* line; a line read while no page is open (current_page = 0) leaves the buffer
\* as it is (a marker) or is appended to it (a body line), and every Page
\* emitted carries the whole buffer, trimmed: so the lines before the first
\* marker lead the text of the next Page emitted.
C10_BufferKeptUntilEmit ==
    /\ [][ /\ (buffer # <<>> /\ buffer' = <<>>) =>
                /\ spc = "loop" /\ sidx <= Len(slines)
                /\ IsMarker(slines[sidx])
                /\ current_page > 0
                /\ pages' = Append(pages, Page(current_page, Trim(buffer)))
           /\ (spc = "loop" /\ sidx <= Len(slines) /\ current_page = 0) =>
                /\ buffer' = IF IsMarker(slines[sidx]) THEN buffer
                             ELSE buffer \o slines[sidx]
                /\ pages' = pages
           /\ Len(pages') > Len(pages) =>
                pages'[Len(pages')].text = Trim(buffer) ]_vars
    /\ [] ( ( /\ spc = "done"
              /\ Len(MarkerIndices(slines, IsMarker)) = 1
              /\ Trim(ConcatBody(slines, 1, Len(slines), IsMarker)) # <<>>
              /\ \A i \in 1..Len(slines) :
                    IsMarker(slines[i]) => MarkerValue(slines[i]) > 0 )
            => \E i \in 1..Len(slines) :
                  /\ IsMarker(slines[i])
                  /\ pages = << Page(MarkerValue(slines[i]),
                                     Trim(ConcatBody(slines, 1, Len(slines), IsMarker))) >> )

C10_Witness ==
    /\ spc = "done"
    /\ slines = << <<"a">>, <<"1">>, <<" ", "b", " ">> >>
    /\ pages = << Page(1, <<"a", " ", "b">>) >>

-----------------------------------------------------------------------------
(* What does hold where C5, C6 and C8 fail *)

\* clean_text is idempotent on the texts that hold no carriage return
FilterIdempotentWithoutCR ==
    (fpc = "twice" /\ \A i \in 1..Len(ftext) : ftext[i] # CR) => fout2 = fout1

\* with the lines classified as the code classifies them, a well-formed input
\* gives one Page per marker
SegmentOnePagePerParsedMarker ==
    (spc = "done" /\ WellFormed(slines, IsMarker, MarkerValue))
    => pages = PagePerMarker(slines, IsMarker, MarkerValue)

\* no page number 0 is emitted, and no page at all when no line parses
SegmentPageNumbersPositive ==
    /\ \A i \in 1..Len(pages) : pages[i].page > 0
    /\ (spc = "done" /\ \A i \in 1..Len(slines) : ~IsMarker(slines[i]))
       => pages = <<>>

-----------------------------------------------------------------------------
(* The specifications *)

SegmentNext == SegCall \/ SegLine \/ SegReturn

SegmentSpec == SegmentInit /\ [][SegmentNext]_vars

FilterNext == FilterOnce \/ FilterTwice

FilterSpec == FilterInit /\ [][FilterNext]_vars

=============================================================================
